---- MODULE Spec2Model ----
(***************************************************************************)
(* A model of the caching layer (app/utils/redis_manager.py), the code     *)
(* review agent (app/agents/code_review_agent.py), the usage counters      *)
(* (app/core/model_manager.py) and the Code Review handler of the          *)
(* dashboard (app/streamlit_app.py).                                       *)
(***************************************************************************)
EXTENDS Integers, Sequences, FiniteSets, TLC

VARIABLES
    ctor,             \* outcome of RedisManager.__init__: "ok" or "raised"
    redis_available,  \* RedisManager.redis_available
    redis,            \* the primary backend: key -> [data, ttl]
    memory_cache,     \* RedisManager.memory_cache: namespace -> (id -> value)
    last,             \* history: the last cache operation and its result
    latest,           \* history: namespace -> (id -> value of the last store)
    nops,             \* history: number of cache operations performed
    model_usage,      \* ModelManager.model_usage: task type -> counters
    lastTrack,        \* history: the last track_usage call and the map before it
    sumTokens,        \* history: task type -> sum of tokens_used over its calls
    calls,            \* history: task type -> number of track_usage calls
    tpc,              \* thread -> position inside track_usage
    targs,            \* thread -> arguments and locals of its track_usage call
    tleft,            \* thread -> calls the thread may still start
    clock,            \* the time datetime.now() reads
    lastCall,         \* history: the last call of /api/v1/analyze-code
    reviews,          \* history: the requests of the Code Review tab, in order
    app_model_usage,  \* main.py: model_manager.model_usage
    lastStats,        \* history: the last answer of /api/v1/model-stats
    resets,           \* history: number of reset_usage_stats calls
    models,           \* ModelManager.models: task type -> configuration
    configured,       \* history: models as __init__ and update_model_config set it
    lastOpt,          \* history: the last configuration call and models before it
    redis_tasks,      \* the primary backend: task id -> entry of task:{id}:status
    redis_lists,      \* the primary backend: agent id -> list agent:{id}:messages
    agentLog,         \* history: agent id -> messages stored since the last clear
    lastRedis,        \* history: the last task, message or plain backend operation
    sessions,         \* dashboard session -> position in the Code Review handler
    web               \* the shared WebAutomation instance and the call running on it

cacheVars == <<ctor, redis_available, redis, memory_cache, last, latest, nops>>
usageVars == <<model_usage, lastTrack, sumTokens, calls>>
threadVars == <<tpc, targs, tleft>>
agentVars == <<clock, lastCall, reviews>>
configVars == <<models, configured, lastOpt>>
backendVars == <<redis_tasks, redis_lists, agentLog, lastRedis>>
uiVars == <<sessions, web>>
extVars == <<configVars, backendVars, uiVars>>
appVars == <<app_model_usage, lastStats, extVars>>
vars == <<cacheVars, usageVars, threadVars, agentVars, appVars, resets>>

-----------------------------------------------------------------------------
(* Bounds of the model *)

MaxOps == 3
MaxCalls == 4
MaxThreadCalls == 2
MaxAnalyses == 1
MaxClock == 2
MaxRequests == 4
MaxResets == 1
MaxFrameOps == 2
MaxConfigOps == 3
MaxBackendOps == 2
MaxMessageOps == 3
MaxNoRaiseOps == 2
MaxSessionRuns == 2
MaxWebRuns == 3

-----------------------------------------------------------------------------
(* Python values and their JSON encoding *)

PyNone == [t |-> "none", ts |-> 0]

\* JSON-clean report dictionaries, told apart by their timestamp
TimeStamps == {1, 2}
Reports == {[t |-> "dict", ts |-> n] : n \in TimeStamps}

\* an object json.dumps rejects (the coroutine the dashboard stores)
PyObject == [t |-> "obj", ts |-> 0]

Values == Reports \cup {PyObject}

Serializable(v) == v.t \in {"dict", "none"}

\* json.dumps: the JSON text of a serializable value
Dumps(v) ==
    IF v.t = "none" THEN "null"
    ELSE "{\"timestamp\": " \o ToString(v.ts) \o "}"

JsonTexts == {Dumps(v) : v \in Reports \cup {PyNone}}

\* json.loads: the value a JSON text written by Dumps parses to
Loads(s) == CHOOSE v \in Reports \cup {PyNone} : Dumps(v) = s

-----------------------------------------------------------------------------
(* The primary backend *)

Nil == "(nil)"
NoTTL == 0
NoEntry == [data |-> Nil, ttl |-> NoTTL]

\* errors a backend call can end with
Errors == {"ConnectionError", "TimeoutError", "ResponseError"}

\* except (redis.ConnectionError, redis.exceptions.TimeoutError) of __init__
CtorCatches(err) == err \in {"ConnectionError", "TimeoutError"}

\* a handler for redis.ConnectionError alone
ExceptConnectionError(err) == err = "ConnectionError"

\* except Exception of the operations
ExceptException(err) == err \in Errors \cup {"TypeError", "JSONDecodeError"}

\* outcomes of one backend call: it returns, or raises one of Errors
CallOutcomes == {"none"} \cup Errors

\* Python truthiness of what redis.get returns (None and "" are falsy)
Truthy(data) == data # Nil /\ data # ""

-----------------------------------------------------------------------------
(* Keys and namespaces *)

Ids == {"x", "y"}

Namespaces == {"analysis_results", "code_analysis", "web_tests", "user_preferences"}

\* the code analyses written under the prefix of the repository analyses
PrefixShared(ns) ==
    CASE ns = "analysis_results" -> "github_analysis:"
      [] ns = "code_analysis" -> "github_analysis:"
      [] ns = "web_tests" -> "web_test:"
      [] ns = "user_preferences" -> "user_prefs:"

Prefix(ns) ==
    CASE ns = "analysis_results" -> "github_analysis:"
      [] ns = "code_analysis" -> "code_analysis:"
      [] ns = "web_tests" -> "web_test:"
      [] ns = "user_preferences" -> "user_prefs:"

RedisKeys == {Prefix(ns) \o id : ns \in Namespaces, id \in Ids}

-----------------------------------------------------------------------------
(* RedisManager *)

\* _store_in_redis: [ret, raised, redis]
_store_in_redis(avail, r, key, value, expires, out, expOut) ==
    IF ~avail THEN [ret |-> FALSE, raised |-> "none", redis |-> r]
    ELSE IF ~Serializable(value)
        \* json.dumps raises TypeError inside the try
        THEN [ret |-> FALSE,
              raised |-> IF ExceptException("TypeError") THEN "none" ELSE "TypeError",
              redis |-> r]
    ELSE LET written == [r EXCEPT ![key] = [data |-> Dumps(value), ttl |-> NoTTL]]
         IN  IF out # "none"
                 THEN [ret |-> FALSE,
                       raised |-> IF ExceptException(out) THEN "none" ELSE out,
                       redis |-> r]
             ELSE IF expires # 0
                 THEN IF expOut # "none"
                          THEN [ret |-> FALSE,
                                raised |-> IF ExceptException(expOut)
                                               THEN "none" ELSE expOut,
                                redis |-> written]
                      ELSE [ret |-> TRUE, raised |-> "none",
                            redis |-> [written EXCEPT ![key].ttl = expires]]
             ELSE [ret |-> TRUE, raised |-> "none", redis |-> written]

\* _get_from_redis: [ret, raised]
_get_from_redis_wrong_handler(avail, r, key, out) ==
    IF avail /\ out # "none"
        THEN [ret |-> PyNone, raised |-> IF CtorCatches(out) THEN "none" ELSE out]
    ELSE IF avail /\ Truthy(r[key].data)
        THEN [ret |-> Loads(r[key].data), raised |-> "none"]
    ELSE [ret |-> PyNone, raised |-> "none"]

_get_from_redis(avail, r, key, out) ==
    IF avail
        THEN IF out # "none"
                 THEN [ret |-> PyNone,
                       raised |-> IF ExceptException(out) THEN "none" ELSE out]
             ELSE IF Truthy(r[key].data)
                 THEN IF r[key].data \in JsonTexts
                          THEN [ret |-> Loads(r[key].data), raised |-> "none"]
                      ELSE [ret |-> PyNone,
                            raised |-> IF ExceptException("JSONDecodeError")
                                           THEN "none" ELSE "JSONDecodeError"]
             ELSE [ret |-> PyNone, raised |-> "none"]
    ELSE [ret |-> PyNone, raised |-> "none"]

\* the body shared by the four namespaced store operations:
\* [ret, raised, redis, memory_cache]
StoreNoFallback(avail, r, mc, ns, id, results, out) ==
    LET s == _store_in_redis(avail, r, Prefix(ns) \o id, results, 0, out, "none")
    IN  [ret |-> TRUE, raised |-> s.raised, redis |-> s.redis, memory_cache |-> mc]

StoreNamespaced(avail, r, mc, ns, id, results, out) ==
    LET s == _store_in_redis(avail, r, Prefix(ns) \o id, results, 0, out, "none")
    IN  IF s.raised # "none"
            THEN [ret |-> FALSE, raised |-> s.raised, redis |-> s.redis,
                  memory_cache |-> mc]
        ELSE [ret |-> TRUE, raised |-> "none", redis |-> s.redis,
              memory_cache |->
                  IF ~s.ret
                      THEN [mc EXCEPT ![ns] = (id :> results) @@ mc[ns]]
                  ELSE mc]

\* the body shared by the four namespaced get operations: [ret, raised]
GetNoFallback(avail, r, mc, ns, id, out) ==
    _get_from_redis(avail, r, Prefix(ns) \o id, out)

GetNamespaced(avail, r, mc, ns, id, out) ==
    LET g == _get_from_redis(avail, r, Prefix(ns) \o id, out)
    IN  IF g.raised # "none" THEN g
        ELSE IF g.ret = PyNone /\ id \in DOMAIN mc[ns]
            THEN [ret |-> mc[ns][id], raised |-> "none"]
        ELSE g

\* what the fallback map answers for a key
FallbackLookup(mc, ns, id) == IF id \in DOMAIN mc[ns] THEN mc[ns][id] ELSE PyNone

-----------------------------------------------------------------------------
(* RedisManager: task status and agent messages *)

Agents == {"a", "b"}

\* the dicts passed as status and as message, told apart by their payload;
\* the operations set their timestamp
Payloads == {"p", "q"}
Stamped(payload, now) == [t |-> "dict", payload |-> payload, ts |-> now]
Stamps == {1, 2}
StampedDicts == {Stamped(p, n) : p \in Payloads, n \in Stamps}

\* a dict holding an object json.dumps rejects
Unserializable == [t |-> "obj", payload |-> "", ts |-> 0]

DictArgs == {Stamped(p, 0) : p \in Payloads} \cup {Unserializable}

\* json.dumps and json.loads of the stamped dicts
DumpsDict(d) ==
    "{\"payload\": \"" \o d.payload \o "\", \"timestamp\": " \o ToString(d.ts) \o "}"
LoadsDict(text) == CHOOSE d \in StampedDicts : DumpsDict(d) = text

TaskTTL == 7200

\* store_task_status: [ret, raised, tasks]
store_task_status(rt, task_id, status, now, out) ==
    IF status.t # "dict"
        THEN [ret |-> FALSE,
              raised |-> IF ExceptException("TypeError") THEN "none" ELSE "TypeError",
              tasks |-> rt]
    ELSE IF out # "none"
        THEN [ret |-> FALSE,
              raised |-> IF ExceptException(out) THEN "none" ELSE out,
              tasks |-> rt]
    ELSE [ret |-> TRUE, raised |-> "none",
          tasks |-> [rt EXCEPT ![task_id] =
                        [data |-> DumpsDict(Stamped(status.payload, now)),
                         ttl |-> TaskTTL]]]

\* the Python None of these operations
NoDict == [t |-> "none", payload |-> "", ts |-> 0]

\* get_task_status: [ret, raised]
get_task_status(rt, task_id, out) ==
    IF out # "none"
        THEN [ret |-> NoDict,
              raised |-> IF ExceptException(out) THEN "none" ELSE out]
    ELSE IF Truthy(rt[task_id].data)
        THEN [ret |-> LoadsDict(rt[task_id].data), raised |-> "none"]
    ELSE [ret |-> NoDict, raised |-> "none"]

\* store_agent_message with lpush in place of rpush
store_agent_message_lpush(rl, agent_id, message, now, out) ==
    IF message.t # "dict"
        THEN [ret |-> FALSE, raised |-> "none", lists |-> rl]
    ELSE IF out # "none"
        THEN [ret |-> FALSE,
              raised |-> IF ExceptException(out) THEN "none" ELSE out,
              lists |-> rl]
    ELSE [ret |-> TRUE, raised |-> "none",
          lists |-> [rl EXCEPT ![agent_id] =
                        <<DumpsDict(Stamped(message.payload, now))>> \o @]]

\* store_agent_message: [ret, raised, lists]
store_agent_message(rl, agent_id, message, now, out) ==
    IF message.t # "dict"
        THEN [ret |-> FALSE,
              raised |-> IF ExceptException("TypeError") THEN "none" ELSE "TypeError",
              lists |-> rl]
    ELSE IF out # "none"
        THEN [ret |-> FALSE,
              raised |-> IF ExceptException(out) THEN "none" ELSE out,
              lists |-> rl]
    ELSE [ret |-> TRUE, raised |-> "none",
          lists |-> [rl EXCEPT ![agent_id] =
                        Append(@, DumpsDict(Stamped(message.payload, now)))]]

\* get_agent_messages: [ret, raised]
get_agent_messages(rl, agent_id, out) ==
    IF out # "none"
        THEN [ret |-> <<>>,
              raised |-> IF ExceptException(out) THEN "none" ELSE out]
    ELSE [ret |-> [n \in 1..Len(rl[agent_id]) |-> LoadsDict(rl[agent_id][n])],
          raised |-> "none"]

\* clear_agent_messages: [ret, raised, lists]
clear_agent_messages(rl, agent_id, out) ==
    IF out # "none"
        THEN [ret |-> FALSE,
              raised |-> IF ExceptException(out) THEN "none" ELSE out,
              lists |-> rl]
    ELSE [ret |-> TRUE, raised |-> "none", lists |-> [rl EXCEPT ![agent_id] = <<>>]]

\* close: [raised]
close(out) == [raised |-> IF out # "none" /\ ~ExceptException(out) THEN out ELSE "none"]

\* the record of an operation: its arguments, the outcome of its backend
\* call, what it returned or raised, and the operation before it
BackendCall(op, id, arg, out, ret, raised, prev) ==
    [op |-> op, n |-> prev.n + 1, id |-> id, arg |-> arg, out |-> out,
     ret |-> ret, raised |-> raised,
     prevOp |-> prev.op, prevId |-> prev.id, prevOut |-> prev.out,
     prevRet |-> prev.ret]

\* the backend after __init__: nothing stored; ping is the outcome of the
\* connection test
BackendIdle(ping) ==
    /\ redis_tasks = [id \in Ids |-> NoEntry]
    /\ redis_lists = [a \in Agents |-> <<>>]
    /\ agentLog = [a \in Agents |-> <<>>]
    /\ lastRedis = [op |-> "__init__", n |-> 0, id |-> "", arg |-> NoDict,
                    \* the connection failures that __init__ handles alike
                    \* are recorded as one
                    out |-> IF ping = "none" \/ ~CtorCatches(ping)
                                THEN ping ELSE "ConnectionError",
                    ret |-> [none |-> TRUE],
                    raised |-> IF ping = "none" \/ CtorCatches(ping)
                                   THEN "none" ELSE ping,
                    prevOp |-> "", prevId |-> "", prevOut |-> "none",
                    prevRet |-> [none |-> TRUE]]

-----------------------------------------------------------------------------
(* ModelManager: usage counters *)

TaskTypes == {"code_analysis", "bug_detection", "code_refactoring"}

\* the token counts the calls are made with
TokenCounts == {0, 50, 100}

ZeroUsage == [total_tokens |-> 0, requests |-> 0]

NoTrack == [task |-> "", tokens |-> 0, before |-> <<>>]

\* ModelManager.__init__: self.model_usage = {}
ModelManagerInit ==
    /\ model_usage = <<>>
    /\ lastTrack = NoTrack
    /\ sumTokens = [t \in TaskTypes |-> 0]
    /\ calls = [t \in TaskTypes |-> 0]

\* track_usage: lines 126-130, the entry is created from zero when missing
EnsureEntry(mu, task_type) ==
    IF task_type \notin DOMAIN mu THEN (task_type :> ZeroUsage) @@ mu ELSE mu

\* track_usage: the usage map after the call
TrackUsageOverwrite(mu, task_type, tokens_used) ==
    (task_type :> [total_tokens |-> tokens_used, requests |-> 1]) @@ mu

TrackUsage(mu, task_type, tokens_used) ==
    LET m == EnsureEntry(mu, task_type)
    IN  [m EXCEPT ![task_type] =
             [total_tokens |-> m[task_type].total_tokens + tokens_used,
              requests |-> m[task_type].requests + 1]]

\* reset_usage_stats: every tracked task type stays listed, its counters zero
ResetUsage(mu) == [t \in DOMAIN mu |-> ZeroUsage]

\* get_usage_stats: returns the map itself
get_usage_stats(mu) == mu

-----------------------------------------------------------------------------
(* ModelManager: the model configurations.  A configuration is its model and *)
(* max_tokens; temperature and context_window are never written.            *)

\* self.models of __init__
InitialModels ==
    [code_analysis |-> [model |-> "gpt-4o-mini", max_tokens |-> 4000],
     bug_detection |-> [model |-> "gpt-4o-mini", max_tokens |-> 2000],
     commit_message |-> [model |-> "gpt-4o-mini", max_tokens |-> 500],
     code_refactoring |-> [model |-> "gpt-4o-mini", max_tokens |-> 3000],
     documentation |-> [model |-> "gpt-4o-mini", max_tokens |-> 2000]]

\* get_model_config returns the stored dict itself, not a copy: the key of
\* the entry it returns
ConfigEntry(ms, task_type) ==
    IF task_type \in DOMAIN ms THEN task_type ELSE "code_analysis"

get_model_config(ms, task_type) == ms[ConfigEntry(ms, task_type)]

\* update_model_config: dict.update on the entry of a known task type
update_model_config(ms, task_type, config) ==
    IF task_type \in DOMAIN ms
        THEN [ret |-> TRUE,
              models |-> [ms EXCEPT ![task_type] =
                             [k \in DOMAIN @ |->
                                 IF k \in DOMAIN config THEN config[k] ELSE @[k]]]]
    ELSE [ret |-> FALSE, models |-> ms]

\* optimize_model_selection: the assignments to config write into the entry
\* of self.models that get_model_config returned
optimize_model_selection(ms, task_type, input_size) ==
    LET entry == ConfigEntry(ms, task_type)
        after ==
            IF input_size > 4000 /\ task_type # "code_analysis"
                THEN [ms EXCEPT ![entry] =
                         [model |-> "gpt-4", max_tokens |-> 4000]]
            ELSE IF input_size <= 4000
                        /\ task_type \in {"code_analysis", "bug_detection"}
                THEN [ms EXCEPT ![entry] =
                         [model |-> "gpt-3.5-turbo", max_tokens |-> 2000]]
            ELSE ms
    IN  [ret |-> after[entry], models |-> after]


NoConfigCall == [op |-> "none", n |-> 0, task_type |-> "", input_size |-> 0,
                 ret |-> [none |-> TRUE], before |-> InitialModels]

\* ModelManager(): the configurations of __init__
ConfigIdle ==
    /\ models = InitialModels
    /\ configured = InitialModels
    /\ lastOpt = NoConfigCall

-----------------------------------------------------------------------------
(* Source text.  A text is a sequence of tokens; every token stands for the  *)
(* characters it spells, and the regular expressions of the rule tables are  *)
(* written over tokens.                                                      *)

Words == {"eval", "exec", "os", "system", "subprocess", "call", "pickle", "loads",
          "new", "Function", "innerHTML", "document", "write", "if", "for",
          "while", "switch", "catch", "in", "range", "len", "and", "or", "global",
          "def", "var", "function", "forEach", "getElementsBy", "append",
          "import", "from", "require", "sys", "x", "i"}

Space == {" ", "\n"}

Quotes == {"'"}

Punct == {"(", ")", ".", "=", "+", "&&", ":", ","}

Alphabet == Words \cup Space \cup Quotes \cup Punct

\* . of a regular expression: any character but a newline
Dot == Alphabet \ {"\n"}

\* the tokens in which the characters "and" or "or" occur
AndOr == {"and", "or", "for", "forEach", "import"}

\* the tokens that begin with the characters "in", and with "i"
InPrefix == {"in", "innerHTML"}
IPrefix == {"i", "if", "in", "innerHTML", "import"}

\* pattern items: one token of a class, or a repetition of at least lo tokens
One(t) == [cls |-> {t}, lo |-> 1, many |-> FALSE]
OneOf(S) == [cls |-> S, lo |-> 1, many |-> FALSE]
Star(S) == [cls |-> S, lo |-> 0, many |-> TRUE]
Plus(S) == [cls |-> S, lo |-> 1, many |-> TRUE]
AtLeast(n, S) == [cls |-> S, lo |-> n, many |-> TRUE]

RECURSIVE RunLen(_, _, _)
\* the number of consecutive tokens of cls in text from position i on
RunLen(cls, text, i) ==
    IF i > Len(text) \/ text[i] \notin cls THEN 0
    ELSE 1 + RunLen(cls, text, i + 1)

NoMatch == [ok |-> FALSE, lens |-> <<>>]

RECURSIVE PrefMatch(_, _, _, _), Try(_, _, _, _, _)
\* item k takes n tokens if the rest of the pattern then matches, else one
\* token fewer, down to the least number the item allows; the set binds r to
\* the match of the rest, computed once
Try(pat, k, text, i, n) ==
    IF n < pat[k].lo THEN NoMatch
    ELSE CHOOSE res \in
             {IF r.ok THEN [ok |-> TRUE, lens |-> <<n>> \o r.lens]
              ELSE Try(pat, k, text, i, n - 1) :
                  r \in {PrefMatch(pat, k + 1, text, i + n)}} : TRUE

\* the match of items k.. of pat at position i that a backtracking matcher
\* with greedy repetitions finds first: the lengths its items take
PrefMatch(pat, k, text, i) ==
    IF k > Len(pat) THEN [ok |-> TRUE, lens |-> <<>>]
    ELSE IF pat[k].many THEN Try(pat, k, text, i, RunLen(pat[k].cls, text, i))
    ELSE IF i <= Len(text) /\ text[i] \in pat[k].cls THEN Try(pat, k, text, i, 1)
    ELSE NoMatch

RECURSIVE SumSeq(_)
SumSeq(q) == IF q = <<>> THEN 0 ELSE Head(q) + SumSeq(Tail(q))

\* re.search(pattern, text): the pattern matches somewhere in text
Search(pat, text) == \E i \in 1..(Len(text) + 1) : PrefMatch(pat, 1, text, i).ok

\* ^ under re.MULTILINE: the position starts a line
AtLineStart(text, i) == i = 1 \/ text[i - 1] = "\n"

RECURSIVE MatchAlt(_, _, _, _)
\* the match at position i of the first of the alternatives a.. that matches
MatchAlt(pats, a, text, i) ==
    IF a > Len(pats) THEN [ok |-> FALSE, alt |-> 0, lens |-> <<>>]
    ELSE CHOOSE res \in
             {IF r.ok THEN [ok |-> TRUE, alt |-> a, lens |-> r.lens]
              ELSE MatchAlt(pats, a + 1, text, i) :
                  r \in {PrefMatch(pats[a], 1, text, i)}} : TRUE

RECURSIVE FindFrom(_, _, _, _)
\* re.findall of an alternation: the non-overlapping matches from position
\* i on, left to right; bol: the pattern begins with ^
FindFrom(pats, text, i, bol) ==
    IF i > Len(text) + 1 THEN <<>>
    ELSE IF bol /\ ~AtLineStart(text, i) THEN FindFrom(pats, text, i + 1, bol)
    ELSE CHOOSE res \in
             {IF m.ok
                  THEN <<[at |-> i, alt |-> m.alt, lens |-> m.lens]>>
                           \o FindFrom(pats, text,
                                       IF SumSeq(m.lens) > 0
                                           THEN i + SumSeq(m.lens) ELSE i + 1, bol)
              ELSE FindFrom(pats, text, i + 1, bol) :
                  m \in {MatchAlt(pats, 1, text, i)}} : TRUE

Findall(pat, text) == FindFrom(<<pat>>, text, 1, FALSE)

RECURSIVE FirstNewline(_, _)
FirstNewline(text, i) ==
    IF i > Len(text) THEN 0
    ELSE IF text[i] = "\n" THEN i ELSE FirstNewline(text, i + 1)

RECURSIVE SplitLines(_)
\* str.splitlines
SplitLines(text) ==
    IF text = <<>> THEN <<>>
    ELSE LET j == FirstNewline(text, 1)
         IN  IF j = 0 THEN <<text>>
             ELSE <<SubSeq(text, 1, j - 1)>> \o SplitLines(SubSeq(text, j + 1, Len(text)))

\* str.lower of the language argument
Lower(language) ==
    CASE language = "Python" -> "python"
      [] language = "JavaScript" -> "javascript"
      [] OTHER -> language

-----------------------------------------------------------------------------
(* CodeReviewAgent: the rule tables *)

LongSignature == 120

security_patterns(lang) ==
    CASE lang = "python" ->
           << [pattern |-> <<One("eval"), One("(")>>,
               message |-> "Use of eval() is dangerous"],
              [pattern |-> <<One("exec"), One("(")>>,
               message |-> "Use of exec() is dangerous"],
              [pattern |-> <<One("os"), One("."), One("system"), One("(")>>,
               message |-> "Use of os.system() is dangerous"],
              [pattern |-> <<One("subprocess"), One("."), One("call"), One("(")>>,
               message |-> "Use of subprocess.call() is dangerous"],
              [pattern |-> <<One("pickle"), One("."), One("loads"), One("(")>>,
               message |-> "Use of pickle.loads() is dangerous"] >>
      [] lang = "javascript" ->
           << [pattern |-> <<One("eval"), One("(")>>,
               message |-> "Use of eval() is dangerous"],
              [pattern |-> <<One("new"), Plus(Space), One("Function"), One("(")>>,
               message |-> "Use of Function constructor is dangerous"],
              [pattern |-> <<One("innerHTML"), Star(Space), One("=")>>,
               message |-> "Use of innerHTML is dangerous"],
              [pattern |-> <<One("document"), One("."), One("write"), One("(")>>,
               message |-> "Use of document.write() is dangerous"] >>
      [] OTHER -> <<>>

performance_patterns(lang) ==
    CASE lang = "python" ->
           << [pattern |-> <<One("for"), Plus(Space), Star(Dot), Plus(Space),
                             One("in"), Plus(Space), One("range"), One("("),
                             One("len"), One("(")>>,
               message |-> "Use enumerate() instead of range(len())"],
              [pattern |-> <<One("+"), Star(Space), One("="), Star(Space),
                             OneOf(Quotes), Plus(Words), OneOf(Quotes)>>,
               message |-> "Use list comprehension or join() for string concatenation"],
              [pattern |-> <<One("."), One("append"), One("("), Star(Dot), One(")"),
                             Star(Space), One("for"), Plus(Space), Star(Dot),
                             Plus(Space), OneOf(InPrefix)>>,
               message |-> "Use list comprehension instead of loop with append()"] >>
      [] lang = "javascript" ->
           << [pattern |-> <<One("for"), Star(Space), One("("), Star(Space),
                             One("var"), Plus(Space), OneOf(IPrefix)>>,
               message |-> "Use let instead of var in for loops"],
              [pattern |-> <<One("."), One("forEach"), One("("), Star(Space),
                             One("function"), Star(Space), One("(")>>,
               message |-> "Use arrow function in forEach"],
              [pattern |-> <<One("document"), One("."), One("getElementsBy")>>,
               message |-> "Use querySelector for better performance"] >>
      [] OTHER -> <<>>

maintainability_patterns(lang) ==
    CASE lang = "python" ->
           << [pattern |-> <<One("def"), Plus(Space), Plus(Words), Star(Space),
                             One("("), AtLeast(LongSignature, Alphabet \ {")"}),
                             One(")")>>,
               message |-> "Function signature is too long"],
              [pattern |-> <<One("if"), Star(Dot), OneOf(AndOr), Star(Dot),
                             OneOf(AndOr)>>,
               message |-> "Complex conditional statement"],
              [pattern |-> <<One("global"), Plus(Space), Plus(Words)>>,
               message |-> "Use of global variables"] >>
      [] lang = "javascript" ->
           << [pattern |-> <<One("function"), Star(Space), One("("),
                             AtLeast(LongSignature, Alphabet \ {")"}), One(")")>>,
               message |-> "Function signature is too long"],
              [pattern |-> <<One("if"), Star(Dot), One("&&"), Star(Dot), One("&&")>>,
               message |-> "Complex conditional statement"],
              [pattern |-> <<One("var"), Plus(Space), Plus(Words), Star(Space),
                             One("="), Star(Space), One("function")>>,
               message |-> "Use const/let and arrow functions"] >>
      [] OTHER -> <<>>

control_structures ==
    << <<One("if"), Star(Space), One("("), Star(Alphabet \ {")"}), One(")")>>,
       <<One("for"), Star(Space), One("("), Star(Alphabet \ {")"}), One(")")>>,
       <<One("while"), Star(Space), One("("), Star(Alphabet \ {")"}), One(")")>>,
       <<One("switch"), Star(Space), One("("), Star(Alphabet \ {")"}), One(")")>>,
       <<One("catch"), Star(Space), One("("), Star(Alphabet \ {")"}), One(")")>> >>

-----------------------------------------------------------------------------
(* CodeReviewAgent: the static checks *)

RECURSIVE LinesMatching(_, _, _)
LinesMatching(lines, pat, i) ==
    IF i > Len(lines) THEN <<>>
    ELSE (IF Search(pat, lines[i]) THEN <<i>> ELSE <<>>)
             \o LinesMatching(lines, pat, i + 1)

\* _find_line_numbers
_find_line_numbers(code, pat) == LinesMatching(SplitLines(code), pat, 1)

RECURSIVE CheckRulesPerMatch(_, _, _, _, _)
\* the loop emitting one finding for every match of a rule
CheckRulesPerMatch(rules, code, type, severity, k) ==
    IF k > Len(rules) THEN <<>>
    ELSE [n \in 1..Len(Findall(rules[k].pattern, code)) |->
              [type |-> type, severity |-> severity,
               message |-> rules[k].message,
               line_numbers |-> _find_line_numbers(code, rules[k].pattern)]]
             \o CheckRulesPerMatch(rules, code, type, severity, k + 1)

RECURSIVE CheckRules(_, _, _, _, _)
\* the loop shared by _check_security, _check_performance, _check_maintainability
CheckRules(rules, code, type, severity, k) ==
    IF k > Len(rules) THEN <<>>
    ELSE (IF Findall(rules[k].pattern, code) # <<>>
              THEN <<[type |-> type, severity |-> severity,
                      message |-> rules[k].message,
                      line_numbers |-> _find_line_numbers(code, rules[k].pattern)]>>
          ELSE <<>>)
             \o CheckRules(rules, code, type, severity, k + 1)

_check_security(code, language) ==
    CheckRules(security_patterns(Lower(language)), code, "security", "high", 1)

_check_performance(code, language) ==
    CheckRules(performance_patterns(Lower(language)), code, "performance", "medium", 1)

_check_maintainability(code, language) ==
    CheckRules(maintainability_patterns(Lower(language)), code,
               "maintainability", "medium", 1)

RECURSIVE CountMatches(_, _, _)
CountMatches(pats, code, k) ==
    IF k > Len(pats) THEN 0
    ELSE Len(Findall(pats[k], code)) + CountMatches(pats, code, k + 1)

_calculate_complexity(code, language) ==
    [cyclomatic |-> CountMatches(control_structures, code, 1) + 1,
     cognitive |-> 0,
     maintainability |-> 0]

\* the tokens of a match that item g of the pattern took
Group(text, m, g) ==
    LET before == SumSeq(SubSeq(m.lens, 1, g - 1))
    IN  SubSeq(text, m.at + before, m.at + before + m.lens[g] - 1)

python_import == <<OneOf({"from", "import"}), Plus(Space), Plus(Words)>>
js_require == <<One("require"), One("("), OneOf(Quotes), Plus(Alphabet \ Quotes),
                OneOf(Quotes), One(")")>>
\* import\s+(?:from\s+)?['"]([^'"]+)['"]: with the optional group, then without
js_import == << <<One("import"), Plus(Space), One("from"), Plus(Space),
                  OneOf(Quotes), Plus(Alphabet \ Quotes), OneOf(Quotes)>>,
                <<One("import"), Plus(Space), OneOf(Quotes),
                  Plus(Alphabet \ Quotes), OneOf(Quotes)>> >>

\* the names that group g of the matches ms captured
Captures(code, ms, groups) ==
    {Group(code, ms[n], groups[ms[n].alt]) : n \in 1..Len(ms)}

\* _extract_dependencies: list(set(...)), as the set of the captured names
_extract_dependencies(code, language) ==
    IF Lower(language) = "python"
        THEN Captures(code, FindFrom(<<python_import>>, code, 1, TRUE), <<3>>)
    ELSE IF Lower(language) = "javascript"
        THEN Captures(code, Findall(js_require, code), <<4>>)
                 \cup Captures(code, FindFrom(js_import, code, 1, FALSE), <<6, 4>>)
    ELSE {}

\* _estimate_test_coverage: none of the texts of the model holds a test marker
_estimate_test_coverage(code, language) ==
    [unit_tests |-> 0, integration_tests |-> 0, total_coverage |-> 0]

_extract_metrics(code, language) ==
    [lines_of_code |-> Len(SplitLines(code)),
     complexity |-> _calculate_complexity(code, language),
     dependencies |-> _extract_dependencies(code, language),
     test_coverage |-> _estimate_test_coverage(code, language)]

RECURSIVE WordsFrom(_, _)
\* len(text.split()): the number of whitespace-separated words
WordsFrom(text, i) ==
    IF i > Len(text) THEN 0
    ELSE (IF text[i] \notin Space /\ (i = 1 \/ text[i - 1] \in Space) THEN 1 ELSE 0)
             + WordsFrom(text, i + 1)

-----------------------------------------------------------------------------
(* The texts and languages the analyses of the model are run on.  No text    *)
(* puts two word tokens next to each other.                                  *)

EmptyCode == <<>>
EvalCall == <<"eval", "(", "x", ")">>
ImportOsSystem == <<"import", " ", "os", "\n", "os", ".", "system", "(", "x", ")">>
AndOrCondition == <<"if", " ", "x", " ", "and", " ", "x", " ", "or", " ", "x", ":">>
IfForVar == <<"if", "(", "x", ")", "\n", "for", "(", "var", " ", "i", ")">>

CodeSamples == {EmptyCode, EvalCall, ImportOsSystem, AndOrCondition, IfForVar}

\* texts for the static checks alone
SplitAssign == <<"innerHTML", "\n", "=", "x">>
EvalThrice == <<"eval", "(", "x", ")", " ", "eval", "(", "x", ")", "\n", "x", "\n",
                "eval", "(", "x", ")">>
ImportOsSys == <<"import", " ", "os", ",", " ", "sys", "\n", "import", " ", "os">>
JsImportFrom == <<"import", " ", "x", " ", "from", " ", "'", "os", "'", "\n",
                  "require", "(", "'", "sys", "'", ")">>

ThreeIfsOneFor == <<"if", " ", "x", ":", "\n", "if", " ", "x", ":", "\n",
                    "if", " ", "x", ":", "\n", "for", " ", "i", " ", "in", " ", "x", ":">>

SourceTexts == CodeSamples \cup {SplitAssign, EvalThrice, ImportOsSys, JsImportFrom,
                                 ThreeIfsOneFor}

Languages == {"python", "JavaScript", "unknown_language"}

-----------------------------------------------------------------------------
(* The completion collaborator: complete(prompt, config) returns a text or   *)
(* fails                                                                     *)

PyList(items) == [py |-> "list", items |-> items]
PyDict(items) == [py |-> "dict", items |-> items]
PyNull == [py |-> "none", items |-> <<>>]

ModelFields == {"quality_issues", "security_vulnerabilities",
                "performance_optimizations", "best_practices",
                "improvement_suggestions", "structure_analysis"}

ProseText == "The code looks fine."
ArrayText == "[]"
NullText == "null"
EmptyObjectText == "{}"
QualityOnlyText == "{\"quality_issues\": [\"q\"]}"
AllFieldsText == "{\"quality_issues\": [\"q\"], \"security_vulnerabilities\": [\"v\"], \"performance_optimizations\": [\"o\"], \"best_practices\": [\"b\"], \"improvement_suggestions\": [\"i\"], \"structure_analysis\": {\"modules\": [\"m\"]}}"

ResponseTexts == {ProseText, ArrayText, NullText, EmptyObjectText,
                  QualityOnlyText, AllFieldsText}

\* the outcomes of one completion call
Completions ==
    {[kind |-> "raise", text |-> ""], [kind |-> "timeout", text |-> ""]}
        \cup {[kind |-> "text", text |-> t] : t \in ResponseTexts}

\* json.loads on the response texts
JsonLoads(text) ==
    CASE text = ArrayText -> [raised |-> "none", val |-> PyList(<<>>)]
      [] text = NullText -> [raised |-> "none", val |-> PyNull]
      [] text = EmptyObjectText -> [raised |-> "none", val |-> PyDict(<<>>)]
      [] text = QualityOnlyText ->
             [raised |-> "none",
              val |-> PyDict("quality_issues" :> PyList(<<"q">>))]
      [] text = AllFieldsText ->
             [raised |-> "none",
              val |-> PyDict([quality_issues |-> PyList(<<"q">>),
                              security_vulnerabilities |-> PyList(<<"v">>),
                              performance_optimizations |-> PyList(<<"o">>),
                              best_practices |-> PyList(<<"b">>),
                              improvement_suggestions |-> PyList(<<"i">>),
                              structure_analysis |->
                                  PyDict("modules" :> PyList(<<"m">>))])]
      [] OTHER -> [raised |-> "JSONDecodeError", val |-> PyNull]

-----------------------------------------------------------------------------
(* CodeReviewAgent.analyze_code *)

\* the context argument: None, a dict of JSON values, a dict holding an
\* object json.dumps cannot encode
Contexts == {"None", "dict", "unserializable"}

\* the words of the code_analysis template around {code}
TemplateWords == 33

\* _prepare_analysis_prompt: json.dumps(context) if context else "{}"
_prepare_analysis_prompt(code, language, context) ==
    IF context = "unserializable"
        THEN [raised |-> "TypeError", words |-> 0]
    ELSE [raised |-> "none", words |-> TemplateWords + WordsFrom(code, 1)]

\* _get_model_analysis: the parsed response, {} when the call or the parse
\* raises
_get_model_analysis(completion) ==
    IF completion.kind # "text" THEN PyDict(<<>>)
    ELSE IF JsonLoads(completion.text).raised # "none" THEN PyDict(<<>>)
    ELSE JsonLoads(completion.text).val

\* analysis_result.get(key, default)
DictGet(analysis_result, key, default) ==
    IF key \in DOMAIN analysis_result.items
        THEN analysis_result.items[key] ELSE default

_extract_quality_issues(ar) == DictGet(ar, "quality_issues", PyList(<<>>))
_extract_security_vulnerabilities(ar) ==
    DictGet(ar, "security_vulnerabilities", PyList(<<>>))
_extract_performance_issues(ar) == DictGet(ar, "performance_issues", PyList(<<>>))
_extract_best_practices(ar) == DictGet(ar, "best_practices", PyList(<<>>))
_extract_improvement_suggestions(ar) ==
    DictGet(ar, "improvement_suggestions", PyList(<<>>))
_extract_structure_analysis(ar) == DictGet(ar, "structure_analysis", PyDict(<<>>))

\* the static part of the results, computed once for every text and language
StaticResults ==
    [code \in SourceTexts |->
        [language \in Languages |->
            [metrics |-> _extract_metrics(code, language),
             complexity |-> _calculate_complexity(code, language),
             dependencies |-> _extract_dependencies(code, language),
             test_coverage |-> _estimate_test_coverage(code, language),
             security_issues |-> _check_security(code, language),
             performance_issues |-> _check_performance(code, language),
             maintainability |-> _check_maintainability(code, language)]]]

\* lines 45-61: the results dict
Results(code, language, ar, now) ==
    [timestamp |-> now,
     language |-> language,
     metrics |-> StaticResults[code][language].metrics,
     complexity |-> StaticResults[code][language].complexity,
     dependencies |-> StaticResults[code][language].dependencies,
     test_coverage |-> StaticResults[code][language].test_coverage,
     security_issues |-> StaticResults[code][language].security_issues,
     performance_issues |-> StaticResults[code][language].performance_issues,
     maintainability |-> StaticResults[code][language].maintainability,
     quality_issues |-> _extract_quality_issues(ar),
     security_vulnerabilities |-> _extract_security_vulnerabilities(ar),
     performance_optimizations |-> _extract_performance_issues(ar),
     best_practices |-> _extract_best_practices(ar),
     improvement_suggestions |-> _extract_improvement_suggestions(ar),
     structure_analysis |-> _extract_structure_analysis(ar)]

\* lines 68-74: except Exception returns the error object
ErrorResult(e, now) ==
    [raised |-> "none", tracked |-> FALSE, tokens |-> 0,
     result |-> [error |-> e, timestamp |-> now]]

\* the exception the body of the try block raises, "none" if it completes
BodyRaises(code, language, context, completion) ==
    IF _prepare_analysis_prompt(code, language, context).raised # "none"
        THEN _prepare_analysis_prompt(code, language, context).raised
    ELSE IF _get_model_analysis(completion).py # "dict"
        THEN "AttributeError"
    ELSE "none"

\* analyze_code without the except clause: the exception leaves the method
analyze_code_uncaught(code, language, context, completion, now) ==
    IF BodyRaises(code, language, context, completion) # "none"
        THEN [raised |-> BodyRaises(code, language, context, completion),
              tracked |-> FALSE, tokens |-> 0, result |-> [none |-> TRUE]]
    ELSE [raised |-> "none", tracked |-> TRUE,
          tokens |-> _prepare_analysis_prompt(code, language, context).words,
          result |-> Results(code, language, _get_model_analysis(completion), now)]

\* analyze_code: what the call returns or raises, and the tokens it tracks
analyze_code(code, language, context, completion, now) ==
    IF BodyRaises(code, language, context, completion) # "none"
        THEN ErrorResult(BodyRaises(code, language, context, completion), now)
    ELSE [raised |-> "none", tracked |-> TRUE,
          tokens |-> _prepare_analysis_prompt(code, language, context).words,
          result |-> Results(code, language, _get_model_analysis(completion), now)]

-----------------------------------------------------------------------------
(* Construction *)

\* no thread is inside track_usage
ThreadsIdle ==
    /\ tpc = [th \in {1, 2} |-> "idle"]
    /\ targs = [th \in {1, 2} |-> [task |-> "", tokens |-> 0, tmp |-> 0]]
    /\ tleft = [th \in {1, 2} |-> 0]

NoCall == [op |-> "none", n |-> 0, normal |-> 0, raised |-> "none", code |-> <<>>, language |-> "", context |-> "None",
           completion |-> [kind |-> "raise", text |-> ""],
           result |-> [none |-> TRUE]]

\* CodeReviewAgent(): no request has been made
AgentIdle ==
    /\ clock = 1
    /\ lastCall = NoCall
    /\ reviews = <<>>

NoStats == [op |-> "none", stats |-> <<>>, analyses |-> 0]

\* main.py line 32: model_manager = ModelManager(), an instance of its own
\* the sessions of the dashboard, none inside the Code Review handler
Sessions == {1, 2}
SessionIdle == [pc |-> "idle", code |-> <<>>, outcome |-> "none", runs |-> 0]

\* WebAutomation(): the browser is launched and a page opened; no call runs
WebAutomationInit ==
    [pc |-> "idle", browser |-> "open", runs |-> 0, closes |-> 0,
     cleanups |-> 0, status |-> "none", tests |-> <<>>, scenarios |-> FALSE,
     pageOpOnClosed |-> FALSE]

AppIdle ==
    /\ app_model_usage = <<>>
    /\ lastStats = NoStats
    /\ resets = 0
    /\ ConfigIdle
    /\ sessions = [s \in Sessions |-> SessionIdle]
    /\ web = WebAutomationInit

NoOp == [op |-> "none", ns |-> "", id |-> "", val |-> PyNone, ret |-> PyNone,
         okret |-> FALSE, raised |-> "none", failed |-> FALSE,
         afterStore |-> FALSE, prevVal |-> PyNone, prevFailed |-> FALSE]

\* RedisManager.__init__: the ping decides redis_available
RedisManagerInit(ping) ==
    /\ memory_cache = [ns \in Namespaces |-> <<>>]
    /\ redis = [k \in RedisKeys |-> NoEntry]
    /\ IF ping = "none"
           THEN ctor = "ok" /\ redis_available = TRUE
       ELSE IF CtorCatches(ping)
           THEN ctor = "ok" /\ redis_available = FALSE
       ELSE ctor = "raised" /\ redis_available = FALSE
    /\ last = NoOp
    /\ latest = [ns \in Namespaces |-> [id \in Ids |-> PyNone]]
    /\ nops = 0
    /\ BackendIdle(ping)

CacheInit ==
    /\ \E ping \in CallOutcomes : RedisManagerInit(ping)
    /\ ModelManagerInit
    /\ ThreadsIdle
    /\ AgentIdle
    /\ AppIdle

-----------------------------------------------------------------------------
(* Cache operations *)

\* the set outcomes a store can meet: no backend call is made when the
\* backend is unavailable or the value cannot be serialized
StoreOutcomes(v) ==
    IF redis_available /\ Serializable(v)
        THEN CallOutcomes ELSE {"none"}

DoStore(ns, id, v, out) ==
    LET s == StoreNamespaced(redis_available, redis, memory_cache, ns, id, v, out)
    IN  /\ ctor = "ok"
        /\ nops < MaxOps
        /\ redis' = s.redis
        /\ memory_cache' = s.memory_cache
        /\ last' = [op |-> "store", ns |-> ns, id |-> id, val |-> v,
                    ret |-> PyNone, okret |-> s.ret, raised |-> s.raised,
                    failed |-> out # "none", afterStore |-> FALSE,
                    prevVal |-> PyNone, prevFailed |-> FALSE]
        /\ latest' = [latest EXCEPT ![ns][id] = v]
        /\ nops' = nops + 1
        /\ UNCHANGED <<appVars, resets, agentVars, ctor, redis_available, usageVars, threadVars>>

DoGet(ns, id, out) ==
    LET g == GetNamespaced(redis_available, redis, memory_cache, ns, id, out)
        follows == last.op = "store" /\ last.ns = ns /\ last.id = id
    IN  /\ ctor = "ok"
        /\ nops < MaxOps
        /\ last' = [op |-> "get", ns |-> ns, id |-> id, val |-> PyNone,
                    ret |-> g.ret, okret |-> FALSE, raised |-> g.raised,
                    failed |-> out # "none", afterStore |-> follows,
                    prevVal |-> IF follows THEN last.val ELSE PyNone,
                    prevFailed |-> follows /\ last.failed]
        /\ nops' = nops + 1
        /\ UNCHANGED <<appVars, resets, agentVars, ctor, redis_available, redis, memory_cache, latest,
                       usageVars, threadVars>>

GetErrs == IF redis_available THEN CallOutcomes ELSE {"none"}

store_analysis_result ==
    \E id \in Ids, v \in Values : \E out \in StoreOutcomes(v) :
        DoStore("analysis_results", id, v, out)

get_analysis_result ==
    \E id \in Ids, out \in GetErrs : DoGet("analysis_results", id, out)

store_code_analysis ==
    \E id \in Ids, v \in Values : \E out \in StoreOutcomes(v) :
        DoStore("code_analysis", id, v, out)

get_code_analysis ==
    \E id \in Ids, out \in GetErrs : DoGet("code_analysis", id, out)

store_web_test_result ==
    \E id \in Ids, v \in Values : \E out \in StoreOutcomes(v) :
        DoStore("web_tests", id, v, out)

get_web_test_result ==
    \E id \in Ids, out \in GetErrs : DoGet("web_tests", id, out)

store_user_preferences ==
    \E id \in Ids, v \in Values : \E out \in StoreOutcomes(v) :
        DoStore("user_preferences", id, v, out)

get_user_preferences ==
    \E id \in Ids, out \in GetErrs : DoGet("user_preferences", id, out)

CacheNext ==
    \/ store_analysis_result
    \/ get_analysis_result
    \/ store_code_analysis
    \/ get_code_analysis
    \/ store_web_test_result
    \/ get_web_test_result
    \/ store_user_preferences
    \/ get_user_preferences

SpecCache == CacheInit /\ [][CacheNext]_vars

-----------------------------------------------------------------------------
(* Claims about the cache *)

RedisKey(ns, id) == Prefix(ns) \o id

\* the primary backend holds the JSON text of v under the key of (ns, id)
PrimaryHolds(ns, id, v) == Serializable(v) /\ redis[RedisKey(ns, id)].data = Dumps(v)

\* C1: in any reachable state, a namespaced store followed immediately by
\* the matching get on the same key returns the value just stored (stated
\* for the pairs in which neither backend call of the store or the get fails).
C1_RoundTrip ==
    (last.op = "get" /\ last.afterStore /\ ~last.failed /\ ~last.prevFailed) =>
        (last.raised = "none" /\ last.ret = last.prevVal)

\* C2: with the primary backend unreachable at construction, every store
\* followed by the matching get returns the stored value out of the fallback
\* map, and every get returns the value of the last store to its key.
C2_FallbackRoundTrip ==
    (ctor = "ok" /\ ~redis_available /\ last.op = "get") =>
        /\ last.raised = "none"
        /\ last.ret = latest[last.ns][last.id]
        /\ last.ret = FallbackLookup(memory_cache, last.ns, last.id)
        /\ last.afterStore => last.ret = last.prevVal

C2_Witness ==
    /\ ctor = "ok" /\ ~redis_available
    /\ last.op = "get" /\ last.afterStore /\ nops = MaxOps
    /\ last.ret \in Reports

\* C3: a namespaced get never raises; when the primary call fails it answers
\* as on a primary miss: the fallback map's value for the key, else None.
C3_GetNeverRaises ==
    (last.op = "get") =>
        /\ last.raised = "none"
        /\ (last.failed \/ ~Truthy(redis[RedisKey(last.ns, last.id)].data)) =>
               last.ret = FallbackLookup(memory_cache, last.ns, last.id)

C3_Witness ==
    /\ last.op = "get" /\ last.failed /\ redis_available
    /\ last.ret \in Reports
    /\ Truthy(redis[RedisKey(last.ns, last.id)].data)

\* C4: a namespaced store returns True in every case; when the primary write
\* fails or the primary is unavailable the value is in the fallback map, so
\* after the store the primary backend or the fallback map holds the value.
C4_StoreNeverFails ==
    (last.op = "store") =>
        /\ last.okret /\ last.raised = "none"
        /\ (last.failed \/ ~redis_available) =>
               FallbackLookup(memory_cache, last.ns, last.id) = last.val
        /\ \/ PrimaryHolds(last.ns, last.id, last.val)
           \/ FallbackLookup(memory_cache, last.ns, last.id) = last.val

C4_Witness ==
    /\ last.op = "store" /\ last.failed /\ redis_available
    /\ FallbackLookup(memory_cache, last.ns, last.id) = last.val
    /\ ~PrimaryHolds(last.ns, last.id, last.val)

\* C5: a key has at most one live entry: the primary backend and the fallback
\* map never hold two different values for one key, and a get never returns a
\* value older than the last one stored under its key.
C5_OneLiveEntry ==
    /\ \A ns \in Namespaces, id \in Ids :
           (Truthy(redis[RedisKey(ns, id)].data) /\ id \in DOMAIN memory_cache[ns]) =>
               Loads(redis[RedisKey(ns, id)].data) = memory_cache[ns][id]
    /\ (last.op = "get" /\ last.ret # PyNone) =>
           last.ret = latest[last.ns][last.id]

-----------------------------------------------------------------------------
(* Usage counter operations *)

\* one whole track_usage call
track_usage ==
    \E task_type \in TaskTypes, tokens_used \in TokenCounts :
        /\ calls["code_analysis"] + calls["bug_detection"]
               + calls["code_refactoring"] < MaxCalls
        /\ model_usage' = TrackUsage(model_usage, task_type, tokens_used)
        /\ lastTrack' = [task |-> task_type, tokens |-> tokens_used,
                         before |-> model_usage]
        /\ sumTokens' = [sumTokens EXCEPT ![task_type] = @ + tokens_used]
        /\ calls' = [calls EXCEPT ![task_type] = @ + 1]
        /\ UNCHANGED <<appVars, resets, agentVars, cacheVars, threadVars>>

UsageInit ==
    /\ RedisManagerInit("none")
    /\ ModelManagerInit
    /\ ThreadsIdle
    /\ AgentIdle
    /\ AppIdle

UsageNext == track_usage

SpecUsage == UsageInit /\ [][UsageNext]_vars

-----------------------------------------------------------------------------
(* ModelManager.track_usage called from several threads: the statements of   *)
(* the method are not atomic, each read and each write is a step             *)

Threads == {1, 2}

NoArgs == [task |-> "", tokens |-> 0, tmp |-> 0]

\* a thread enters track_usage(task_type, tokens_used)
t_call(th) ==
    \E task_type \in {"code_analysis", "bug_detection"}, tokens_used \in {50, 100} :
        /\ tpc[th] = "idle"
        /\ tleft[th] > 0
        /\ tleft' = [tleft EXCEPT ![th] = @ - 1]
        /\ targs' = [targs EXCEPT ![th] =
                         [task |-> task_type, tokens |-> tokens_used, tmp |-> 0]]
        /\ tpc' = [tpc EXCEPT ![th] = "check"]
        /\ sumTokens' = [sumTokens EXCEPT ![task_type] = @ + tokens_used]
        /\ calls' = [calls EXCEPT ![task_type] = @ + 1]
        /\ UNCHANGED <<appVars, resets, agentVars, cacheVars, model_usage, lastTrack>>

\* line 126: if task_type not in self.model_usage
t_check(th) ==
    /\ tpc[th] = "check"
    /\ tpc' = [tpc EXCEPT ![th] =
                   IF targs[th].task \notin DOMAIN model_usage
                       THEN "create" ELSE "load_tokens"]
    /\ UNCHANGED <<appVars, resets, agentVars, cacheVars, usageVars, targs, tleft>>

\* lines 127-130: self.model_usage[task_type] = {"total_tokens": 0, "requests": 0}
t_create(th) ==
    /\ tpc[th] = "create"
    /\ model_usage' = (targs[th].task :> ZeroUsage) @@ model_usage
    /\ tpc' = [tpc EXCEPT ![th] = "load_tokens"]
    /\ UNCHANGED <<appVars, resets, agentVars, cacheVars, lastTrack, sumTokens, calls, targs, tleft>>

\* line 132, the read of total_tokens += tokens_used
t_load_tokens(th) ==
    /\ tpc[th] = "load_tokens"
    /\ targs' = [targs EXCEPT ![th].tmp = model_usage[targs[th].task].total_tokens]
    /\ tpc' = [tpc EXCEPT ![th] = "store_tokens"]
    /\ UNCHANGED <<appVars, resets, agentVars, cacheVars, usageVars, tleft>>

\* line 132, the write of total_tokens += tokens_used
t_store_tokens(th) ==
    /\ tpc[th] = "store_tokens"
    /\ model_usage' = [model_usage EXCEPT ![targs[th].task].total_tokens =
                           targs[th].tmp + targs[th].tokens]
    /\ tpc' = [tpc EXCEPT ![th] = "load_requests"]
    /\ UNCHANGED <<appVars, resets, agentVars, cacheVars, lastTrack, sumTokens, calls, targs, tleft>>

\* line 133, the read of requests += 1
t_load_requests(th) ==
    /\ tpc[th] = "load_requests"
    /\ targs' = [targs EXCEPT ![th].tmp = model_usage[targs[th].task].requests]
    /\ tpc' = [tpc EXCEPT ![th] = "store_requests"]
    /\ UNCHANGED <<appVars, resets, agentVars, cacheVars, usageVars, tleft>>

\* line 133, the write of requests += 1; the call returns
t_store_requests(th) ==
    /\ tpc[th] = "store_requests"
    /\ model_usage' = [model_usage EXCEPT ![targs[th].task].requests =
                           targs[th].tmp + 1]
    /\ tpc' = [tpc EXCEPT ![th] = "idle"]
    /\ targs' = [targs EXCEPT ![th] = NoArgs]
    /\ UNCHANGED <<appVars, resets, agentVars, cacheVars, lastTrack, sumTokens, calls, tleft>>

ThreadsInit ==
    /\ RedisManagerInit("none")
    /\ ModelManagerInit
    /\ tpc = [th \in Threads |-> "idle"]
    /\ targs = [th \in Threads |-> NoArgs]
    /\ tleft = [th \in Threads |-> MaxThreadCalls]
    /\ AgentIdle
    /\ AppIdle

ThreadsNext ==
    \E th \in Threads :
        \/ t_call(th)
        \/ t_check(th)
        \/ t_create(th)
        \/ t_load_tokens(th)
        \/ t_store_tokens(th)
        \/ t_load_requests(th)
        \/ t_store_requests(th)

SpecUsageThreads == ThreadsInit /\ [][ThreadsNext]_vars

\* reset_usage_stats, called while threads are inside track_usage
reset_usage_stats ==
    /\ resets < MaxResets
    /\ resets' = resets + 1
    /\ model_usage' = ResetUsage(model_usage)
    /\ UNCHANGED <<cacheVars, lastTrack, sumTokens, calls, threadVars, agentVars,
                   appVars>>

ResetNext == ThreadsNext \/ reset_usage_stats

SpecUsageReset == ThreadsInit /\ [][ResetNext]_vars

-----------------------------------------------------------------------------
(* Claims about the usage counters *)

\* every tracked task type's counters equal the history of its calls
CountersMatchHistory ==
    /\ DOMAIN get_usage_stats(model_usage) = {t \in TaskTypes : calls[t] > 0}
    /\ \A t \in DOMAIN get_usage_stats(model_usage) :
           /\ get_usage_stats(model_usage)[t].total_tokens = sumTokens[t]
           /\ get_usage_stats(model_usage)[t].requests = calls[t]

\* C9: for any interleaving of concurrent track_usage calls no update is
\* lost: once all calls have returned each task type's total_tokens is the sum
\* of tokens_used over its calls and its request count is their number.
C9_NoLostUpdate ==
    (\A th \in Threads : tpc[th] = "idle") => CountersMatchHistory

-----------------------------------------------------------------------------
(* Analyses: a caller (the /api/v1/analyze-code route, a test) awaits        *)
(* CodeReviewAgent.analyze_code                                              *)

AnalyzeCall(codes, languages, contexts, completions) ==
    \E code \in codes, language \in languages, context \in contexts,
       completion \in completions :
        LET r == analyze_code(code, language, context, completion, clock)
        IN  /\ lastCall.n < MaxAnalyses
            /\ lastCall' = [op |-> "analyze", n |-> lastCall.n + 1,
                            normal |-> lastCall.normal
                                           + (IF r.tracked THEN 1 ELSE 0),
                            raised |-> r.raised, code |-> code,
                            language |-> language, context |-> context,
                            completion |-> completion, result |-> r.result]
            /\ IF r.tracked
                   THEN /\ model_usage' = TrackUsage(model_usage, "code_analysis",
                                                     r.tokens)
                        /\ lastTrack' = [task |-> "code_analysis",
                                         tokens |-> r.tokens,
                                         before |-> model_usage]
                        /\ sumTokens' = [sumTokens EXCEPT
                                             !["code_analysis"] = @ + r.tokens]
                        /\ calls' = [calls EXCEPT !["code_analysis"] = @ + 1]
               ELSE UNCHANGED usageVars
            /\ UNCHANGED <<appVars, resets, cacheVars, threadVars, clock, reviews>>

call_analyze_code == AnalyzeCall(CodeSamples, Languages, Contexts, Completions)

\* time passes
Tick ==
    /\ clock < MaxClock
    /\ clock' = clock + 1
    /\ UNCHANGED <<appVars, resets, cacheVars, usageVars, threadVars, lastCall, reviews>>

AgentInit ==
    /\ RedisManagerInit("none")
    /\ ModelManagerInit
    /\ ThreadsIdle
    /\ AgentIdle
    /\ AppIdle

AgentNext == call_analyze_code \/ Tick

SpecAgent == AgentInit /\ [][AgentNext]_vars

-----------------------------------------------------------------------------
(* Claims about analyze_code *)

\* the completion call raised, timed out, or returned a text that is not a
\* JSON object
Malformed(completion) ==
    \/ completion.kind # "text"
    \/ JsonLoads(completion.text).raised # "none"
    \/ JsonLoads(completion.text).val.py # "dict"

WellFormed == [kind |-> "text", text |-> AllFieldsText]

\* the local findings of a result
Findings(result) ==
    [metrics |-> result.metrics, complexity |-> result.complexity,
     dependencies |-> result.dependencies,
     test_coverage |-> result.test_coverage,
     security_issues |-> result.security_issues,
     performance_issues |-> result.performance_issues,
     maintainability |-> result.maintainability]

ModelDefaults(result) ==
    /\ result.quality_issues = PyList(<<>>)
    /\ result.security_vulnerabilities = PyList(<<>>)
    /\ result.performance_optimizations = PyList(<<>>)
    /\ result.best_practices = PyList(<<>>)
    /\ result.improvement_suggestions = PyList(<<>>)
    /\ result.structure_analysis = PyDict(<<>>)

\* C6: when the completion call raises, times out or returns a text that is
\* not a JSON object, analyze_code still returns a normal report (no error
\* key) whose six model-derived fields are their empty defaults and whose
\* local findings are those of the same analysis with a successful completion
C6_MalformedCompletionDegrades ==
    (/\ lastCall.op = "analyze"
     /\ lastCall.context # "unserializable"
     /\ Malformed(lastCall.completion))
        => /\ lastCall.raised = "none"
           /\ "error" \notin DOMAIN lastCall.result
           /\ ModelDefaults(lastCall.result)
           /\ Findings(lastCall.result)
                  = Findings(analyze_code(lastCall.code, lastCall.language,
                                          lastCall.context, WellFormed,
                                          lastCall.result.timestamp).result)

ReportKeys == {"timestamp", "language", "metrics", "complexity", "dependencies",
               "test_coverage", "security_issues", "performance_issues",
               "maintainability", "quality_issues", "security_vulnerabilities",
               "performance_optimizations", "best_practices",
               "improvement_suggestions", "structure_analysis"}

\* C7: analyze_code never raises to its caller; what it returns is a full
\* report or an object with exactly the keys error and timestamp
C7_ReportOrErrorObject ==
    lastCall.op = "analyze"
        => /\ lastCall.raised = "none"
           /\ \/ DOMAIN lastCall.result = ReportKeys
              \/ DOMAIN lastCall.result = {"error", "timestamp"}

\* the body of analyze_code raised and the caller got the error object
C7_Witness ==
    /\ lastCall.op = "analyze"
    /\ lastCall.context = "unserializable"
    /\ lastCall.raised = "none"
    /\ DOMAIN lastCall.result = {"error", "timestamp"}

-----------------------------------------------------------------------------
(* The usage snapshot served by /api/v1/model-stats *)

\* get_model_stats: model_manager.get_usage_stats() of main.py's own instance
get_model_stats ==
    /\ lastStats' = [op |-> "stats",
                     stats |-> get_usage_stats(app_model_usage),
                     analyses |-> lastCall.normal]
    /\ UNCHANGED <<cacheVars, usageVars, threadVars, agentVars, resets,
                   app_model_usage, extVars>>

StatsNext == call_analyze_code \/ get_model_stats

SpecStats == AgentInit /\ [][StatsNext]_vars

\* the request count a snapshot lists for a task type
RequestsListed(stats, task_type) ==
    IF task_type \in DOMAIN stats THEN stats[task_type].requests ELSE 0

\* C11: the snapshot served by the model-stats endpoint lists, as the request
\* count of code_analysis, the number of analyses that returned a normal
\* report in the process
C11_StatsCountAnalyses ==
    lastStats.op = "stats"
        => RequestsListed(lastStats.stats, "code_analysis") = lastStats.analyses

-----------------------------------------------------------------------------
(* The Code Review tab of the dashboard *)

\* the texts entered in the text area
DashboardInputs == {EmptyCode, EvalCall, IfForVar}

\* code_id = hash(code_input)
CodeHash(code_input) == IF code_input = EvalCall THEN "x" ELSE "y"

\* if cached_analysis:
PyTruthy(v) == v.t # "none"

\* one press of Analyze Code: the handler from the button to the end of the
\* script run
\* the language of the entered text is the user's: the tab has no input for
\* it and the handler never reads it
code_review_tab ==
    \E code_input \in DashboardInputs, language \in Languages,
       out \in CallOutcomes :
        LET code_id == CodeHash(code_input)
            cached_analysis ==
                GetNamespaced(redis_available, redis, memory_cache,
                              "code_analysis", code_id, out).ret
            request ==
                IF code_input = <<>>
                    THEN [code |-> code_input, outcome |-> "warning",
                          shown |-> PyNone, invoked |-> FALSE,
                          requests |-> calls["code_analysis"],
                          language |-> language,
                          key |-> RedisKey("code_analysis", code_id)]
                ELSE IF PyTruthy(cached_analysis)
                    THEN [code |-> code_input, outcome |-> "cached",
                          shown |-> cached_analysis, invoked |-> FALSE,
                          requests |-> calls["code_analysis"],
                          language |-> language,
                          key |-> RedisKey("code_analysis", code_id)]
                \* analyze_code(code_input): language is missing, the call
                \* raises TypeError and the script run ends
                ELSE [code |-> code_input, outcome |-> "TypeError",
                      shown |-> PyNone, invoked |-> TRUE,
                      requests |-> calls["code_analysis"],
                          language |-> language,
                          key |-> RedisKey("code_analysis", code_id)]
        IN  /\ ctor = "ok"
            /\ Len(reviews) < MaxRequests
            /\ reviews' = Append(reviews, request)
            /\ UNCHANGED <<appVars, resets, cacheVars, usageVars, threadVars, clock, lastCall>>

ReviewInit == CacheInit

ReviewNext == code_review_tab

SpecReview == ReviewInit /\ [][ReviewNext]_vars

\* C8: of two analyze requests with the same content, the second is served
\* from the cache: it shows the report of the first, with the same timestamp,
\* without calling the analyzer
C8_SecondRequestServedFromCache ==
    \A i, j \in 1..Len(reviews) :
        (i < j /\ reviews[i].code = reviews[j].code /\ reviews[i].code # <<>>)
            => /\ reviews[j].outcome = "cached"
               /\ ~reviews[j].invoked
               /\ reviews[j].shown.ts = reviews[i].shown.ts
               /\ reviews[j].requests = reviews[i].requests

\* C15: the cache key of a sample is a function of its content and its
\* language: requests with the same content and language use the same key,
\* and requests with the same content but different languages use different
\* keys
C15_KeyOfContentAndLanguage ==
    \A i, j \in 1..Len(reviews) :
        (reviews[i].code = reviews[j].code /\ reviews[i].code # <<>>)
            => (reviews[i].key = reviews[j].key
                    <=> reviews[i].language = reviews[j].language)

-----------------------------------------------------------------------------
(* Claims about resetting the usage counters *)

\* C12: only reset_usage_stats lowers a usage counter: after it
\* get_usage_stats still lists every task type tracked before, with
\* total_tokens 0 and request count 0, and every other step leaves each
\* listed counter at least as large as it was
C12_OnlyResetLowers ==
    [][IF resets' # resets
           THEN \A t \in DOMAIN get_usage_stats(model_usage) :
                    /\ t \in DOMAIN get_usage_stats(model_usage')
                    /\ get_usage_stats(model_usage')[t].total_tokens = 0
                    /\ get_usage_stats(model_usage')[t].requests = 0
       ELSE \A t \in DOMAIN get_usage_stats(model_usage) :
                /\ t \in DOMAIN get_usage_stats(model_usage')
                /\ get_usage_stats(model_usage')[t].total_tokens
                       >= get_usage_stats(model_usage)[t].total_tokens
                /\ get_usage_stats(model_usage')[t].requests
                       >= get_usage_stats(model_usage)[t].requests]_vars

-----------------------------------------------------------------------------
(* Claims about expiry and namespaces *)

\* the expiry, in seconds, of the entries of a namespace: one hour for
\* analysis results, 24 hours for user preferences
ExpectedTTL(ns) == IF ns = "user_preferences" THEN 24 * 3600 ELSE 3600

\* C13: every store applies its namespace's expiry to the entry it writes:
\* an entry the primary backend holds carries the expiry of its namespace
\* (one hour for repository, code and web-test analyses, 24 hours for user
\* preferences), so that it is absent once that time has passed
C13_StoresApplyExpiry ==
    \A ns \in Namespaces, id \in Ids :
        redis[RedisKey(ns, id)].data # Nil
            => redis[RedisKey(ns, id)].ttl = ExpectedTTL(ns)

\* the cache operations, in histories of at most MaxFrameOps operations
FrameNext ==
    \/ nops < MaxFrameOps /\ store_analysis_result
    \/ nops < MaxFrameOps /\ get_analysis_result
    \/ nops < MaxFrameOps /\ store_code_analysis
    \/ nops < MaxFrameOps /\ get_code_analysis
    \/ nops < MaxFrameOps /\ store_web_test_result
    \/ nops < MaxFrameOps /\ get_web_test_result
    \/ nops < MaxFrameOps /\ store_user_preferences
    \/ nops < MaxFrameOps /\ get_user_preferences

SpecCacheFrame == CacheInit /\ [][FrameNext]_vars

\* what a get of (ns, id) returns when its backend call succeeds
GetResult(avail, r, mc, ns, id) == GetNamespaced(avail, r, mc, ns, id, "none").ret

\* C14: a store under one namespace with identifier X leaves unchanged, for
\* every other (namespace, identifier) pair, the entry of the primary
\* backend, the entry of the fallback map and the result of get
C14_StoreKeepsOtherKeys ==
    [][(nops' # nops /\ last'.op = "store")
           => \A ns \in Namespaces, id \in Ids :
                  (ns # last'.ns \/ id # last'.id)
                      => /\ redis'[RedisKey(ns, id)] = redis[RedisKey(ns, id)]
                         /\ FallbackLookup(memory_cache', ns, id)
                                = FallbackLookup(memory_cache, ns, id)
                         /\ GetResult(redis_available', redis', memory_cache',
                                      ns, id)
                                = GetResult(redis_available, redis, memory_cache,
                                            ns, id)]_vars

\* a store has written the identifier of an entry that another namespace
\* holds, in the primary backend and in the fallback map
C14_Witness ==
    /\ last.op = "store"
    /\ \E ns \in Namespaces \ {last.ns} :
           /\ \/ /\ PrimaryHolds(last.ns, last.id, last.val)
                 /\ redis[RedisKey(ns, last.id)].data # Nil
              \/ /\ FallbackLookup(memory_cache, last.ns, last.id) = last.val
                 /\ FallbackLookup(memory_cache, ns, last.id) # PyNone
           /\ GetResult(redis_available, redis, memory_cache, ns, last.id) # PyNone


-----------------------------------------------------------------------------
(* The static checks of analyze_code, on every source text *)

\* self.model_manager.get_completion raises (ModelManager has no such
\* method); the context is None or a dict of JSON values
StaticCompletions == {[kind |-> "raise", text |-> ""]}
StaticContexts == {"None", "dict"}

static_analyze_code ==
    AnalyzeCall(SourceTexts, Languages, StaticContexts, StaticCompletions)

StaticNext == static_analyze_code \/ Tick

SpecStatic == AgentInit /\ [][StaticNext]_vars

\* the language has no rule table
Unregistered(language) == Lower(language) \notin {"python", "javascript"}

\* C16: for any code and any language without registered rules the analysis
\* returns a complete report without an error key, with no dependencies, no
\* security, performance or maintainability findings and cyclomatic
\* complexity 1
C16_UnknownLanguageBaseline ==
    (lastCall.op = "analyze" /\ Unregistered(lastCall.language))
        => /\ lastCall.raised = "none"
           /\ DOMAIN lastCall.result = ReportKeys
           /\ lastCall.result.dependencies = {}
           /\ lastCall.result.metrics.dependencies = {}
           /\ lastCall.result.security_issues = <<>>
           /\ lastCall.result.performance_issues = <<>>
           /\ lastCall.result.maintainability = <<>>
           /\ lastCall.result.complexity.cyclomatic = 1
           /\ lastCall.result.metrics.complexity.cyclomatic = 1

\* C17: analyze_code("", "unknown_language") returns an error report: a dict
\* with the keys error and timestamp
C17_EmptyUnknownIsError ==
    (/\ lastCall.op = "analyze"
     /\ lastCall.code = EmptyCode
     /\ lastCall.language = "unknown_language"
     /\ lastCall.context = "None")
        => /\ lastCall.raised = "none"
           /\ {"error", "timestamp"} \subseteq DOMAIN lastCall.result


\* the findings of the three checks of a report
AllFindings(result) ==
    result.security_issues \o result.performance_issues \o result.maintainability

\* the report of the last call is a normal one
NormalReport == lastCall.op = "analyze" /\ "error" \notin DOMAIN lastCall.result

StrictlyAscending(q) == \A a, b \in 1..Len(q) : a < b => q[a] < q[b]

\* the rules of the three tables for a language
AllRules(language) ==
    security_patterns(Lower(language)) \o performance_patterns(Lower(language))
        \o maintainability_patterns(Lower(language))

\* the 1-indexed lines of code on which pat matches
MatchingLines(code, pat) ==
    {n \in 1..Len(SplitLines(code)) : Search(pat, SplitLines(code)[n])}

\* C18: every finding of the security, performance and maintainability
\* checks has a non-empty, strictly ascending line_numbers, and a rule whose
\* pattern matches on no single line of the code emits no finding
C18_FindingsHaveLines ==
    NormalReport
        => /\ \A f \in 1..Len(AllFindings(lastCall.result)) :
                  /\ AllFindings(lastCall.result)[f].line_numbers # <<>>
                  /\ StrictlyAscending(AllFindings(lastCall.result)[f].line_numbers)
           /\ \A k \in 1..Len(AllRules(lastCall.language)) :
                  MatchingLines(lastCall.code,
                                AllRules(lastCall.language)[k].pattern) = {}
                      => \A f \in 1..Len(AllFindings(lastCall.result)) :
                             AllFindings(lastCall.result)[f].message
                                 # AllRules(lastCall.language)[k].message


\* the ascending sequence of the numbers of a set
RECURSIVE Ascending(_)
Ascending(S) ==
    IF S = {} THEN <<>>
    ELSE LET least == CHOOSE n \in S : \A o \in S : n <= o
         IN  <<least>> \o Ascending(S \ {least})

\* the findings a category lists are, rule by rule of its table, one finding
\* for every rule whose pattern matches somewhere in the code, with the
\* category's type and severity and the lines on which the pattern matches
OnePerMatchingRule(findings, rules, code, type, severity) ==
    /\ \A k \in 1..Len(rules) :
           Cardinality({f \in 1..Len(findings) :
                            findings[f].message = rules[k].message})
               = (IF Search(rules[k].pattern, code) THEN 1 ELSE 0)
    /\ \A f \in 1..Len(findings) :
           /\ findings[f].type = type
           /\ findings[f].severity = severity
           /\ \E k \in 1..Len(rules) :
                  /\ findings[f].message = rules[k].message
                  /\ findings[f].line_numbers
                         = Ascending(MatchingLines(code, rules[k].pattern))

PythonLineImports(line) ==
    IF Len(line) >= 3 /\ line[1] = "import" /\ line[2] = " "
           /\ \A n \in 3..Len(line) : line[n] \in Words \cup {",", " "}
        THEN {<<line[n]>> : n \in {o \in 3..Len(line) : line[o] \in Words}}
    ELSE IF Len(line) >= 3 /\ line[1] = "from" /\ line[2] = " "
                /\ line[3] \in Words
        THEN {<<line[3]>>}
    ELSE {}

\* the modules the require calls and import statements of a JavaScript text
\* name: the quoted name after require(, import or from
JavaScriptImports(code) ==
    {<<code[n + 1]>> :
        n \in {o \in 3..(Len(code) - 2) :
                  /\ code[o] \in Quotes /\ code[o + 2] \in Quotes
                  /\ \/ code[o - 1] = "(" /\ code[o - 2] = "require"
                     \/ code[o - 1] = " " /\ code[o - 2] \in {"import", "from"}}}

ImportedModules(code, language) ==
    IF Lower(language) = "python"
        THEN UNION {PythonLineImports(SplitLines(code)[n]) :
                        n \in 1..Len(SplitLines(code))}
    ELSE IF Lower(language) = "javascript" THEN JavaScriptImports(code)
    ELSE {}

\* C20: the dependencies of a report, a collection without duplicates, hold
\* every module that an import statement of the language names in the text
C20_DependenciesComplete ==
    NormalReport
        => /\ ImportedModules(lastCall.code, lastCall.language)
                  \subseteq lastCall.result.dependencies
           /\ ImportedModules(lastCall.code, lastCall.language)
                  \subseteq lastCall.result.metrics.dependencies


\* the if, for and while statements of a Python text: the lines that begin
\* with the keyword
PythonControlStatements(code) ==
    Cardinality({n \in 1..Len(SplitLines(code)) :
                     /\ SplitLines(code)[n] # <<>>
                     /\ SplitLines(code)[n][1] \in {"if", "for", "while"}})

\* C21: for Python code the cyclomatic complexity is 1 + the number of its
\* control structures: three if statements and one for loop give 5, and any
\* if, for or while statement gives more than 1
C21_PythonComplexityCounts ==
    (NormalReport /\ Lower(lastCall.language) = "python")
        => lastCall.result.complexity.cyclomatic
               = 1 + PythonControlStatements(lastCall.code)


\* the default of a model-derived field: the empty mapping for
\* structure_analysis, the empty list for the others
FieldDefault(field) ==
    IF field = "structure_analysis" THEN PyDict(<<>>) ELSE PyList(<<>>)

\* C22: in a normal report every model-derived field is the same-named field
\* of the parsed model output when the output has it, and the empty list or
\* mapping when it has not
C22_ModelFieldsCopied ==
    (/\ NormalReport
     /\ lastCall.completion.kind = "text"
     /\ JsonLoads(lastCall.completion.text).raised = "none"
     /\ JsonLoads(lastCall.completion.text).val.py = "dict")
        => \A field \in ModelFields :
               lastCall.result[field]
                   = DictGet(JsonLoads(lastCall.completion.text).val, field,
                             FieldDefault(field))


-----------------------------------------------------------------------------
(* ModelManager: selecting and updating the model configurations *)

TaskTypeArgs == {"code_analysis", "bug_detection", "commit_message", "unknown_task"}
InputSizes == {3000, 4000, 5000}
ConfigUpdates == {[model |-> "gpt-4o-mini", max_tokens |-> 3000],
                  [max_tokens |-> 1000]}

call_optimize_model_selection ==
    \E task_type \in TaskTypeArgs, input_size \in InputSizes :
        LET r == optimize_model_selection(models, task_type, input_size)
        IN  /\ lastOpt.n < MaxConfigOps
            /\ models' = r.models
            /\ lastOpt' = [op |-> "optimize", n |-> lastOpt.n + 1,
                           task_type |-> task_type, input_size |-> input_size,
                           ret |-> r.ret, before |-> models]
            /\ UNCHANGED <<cacheVars, usageVars, threadVars, agentVars, resets,
                           app_model_usage, lastStats, configured, backendVars,
                           uiVars>>

call_update_model_config ==
    \E task_type \in TaskTypeArgs, config \in ConfigUpdates :
        LET r == update_model_config(models, task_type, config)
        IN  /\ lastOpt.n < MaxConfigOps
            /\ models' = r.models
            /\ configured' = update_model_config(configured, task_type, config).models
            /\ lastOpt' = [op |-> "update", n |-> lastOpt.n + 1,
                           task_type |-> task_type, input_size |-> 0,
                           ret |-> [ok |-> r.ret], before |-> models]
            /\ UNCHANGED <<cacheVars, usageVars, threadVars, agentVars, resets,
                           app_model_usage, lastStats, backendVars, uiVars>>

ConfigNext == call_optimize_model_selection \/ call_update_model_config

SpecConfig == AgentInit /\ [][ConfigNext]_vars

\* C23: optimize_model_selection returns gpt-3.5-turbo with max_tokens 2000
\* for an input of at most 4000 and the task code_analysis or bug_detection,
\* gpt-4 with max_tokens 4000 for an input above 4000 and a task other than
\* code_analysis, and otherwise the model and max_tokens configured for the
\* task
C23_OptimizedSelection ==
    lastOpt.op = "optimize"
        => lastOpt.ret
               = (IF lastOpt.input_size <= 4000
                        /\ lastOpt.task_type \in {"code_analysis", "bug_detection"}
                      THEN [model |-> "gpt-3.5-turbo", max_tokens |-> 2000]
                  ELSE IF lastOpt.input_size > 4000
                             /\ lastOpt.task_type # "code_analysis"
                      THEN [model |-> "gpt-4", max_tokens |-> 4000]
                  ELSE get_model_config(configured, lastOpt.task_type))

\* C28: optimize_model_selection leaves what get_model_config returns for
\* every task type as it was before the call, so that get_model_config
\* returns what __init__ and update_model_config configured
C28_OptimizeKeepsConfigs ==
    /\ lastOpt.op = "optimize"
           => \A t \in TaskTypeArgs \cup DOMAIN models :
                  get_model_config(models, t) = get_model_config(lastOpt.before, t)
    /\ \A t \in TaskTypeArgs \cup DOMAIN models :
           get_model_config(models, t) = get_model_config(configured, t)


-----------------------------------------------------------------------------
(* RedisManager: task status, and _store_in_redis with an expiry *)

\* the outcomes of the backend call of an operation on a dict: json.dumps
\* raises before the call when the dict cannot be serialized
DictOutcomes(d) == IF d.t = "dict" THEN CallOutcomes ELSE {"none"}

call_store_task_status ==
    \E task_id \in Ids, status \in DictArgs : \E out \in DictOutcomes(status) :
        LET s == store_task_status(redis_tasks, task_id, status, clock, out)
        IN  /\ ctor = "ok"
            /\ lastRedis.n < MaxBackendOps
            /\ redis_tasks' = s.tasks
            /\ lastRedis' = BackendCall("store_task_status", task_id,
                                        IF status.t = "dict"
                                            THEN Stamped(status.payload, clock)
                                        ELSE status,
                                        out, s.ret, s.raised, lastRedis)
            /\ UNCHANGED <<cacheVars, usageVars, threadVars, agentVars, resets,
                           app_model_usage, lastStats, configVars, uiVars, redis_lists,
                           agentLog>>

call_get_task_status ==
    \E task_id \in Ids, out \in CallOutcomes :
        LET g == get_task_status(redis_tasks, task_id, out)
        IN  /\ ctor = "ok"
            /\ lastRedis.n < MaxBackendOps
            /\ lastRedis' = BackendCall("get_task_status", task_id, lastRedis.arg,
                                        out, g.ret, g.raised, lastRedis)
            /\ UNCHANGED <<cacheVars, usageVars, threadVars, agentVars, resets,
                           app_model_usage, lastStats, configVars, uiVars, redis_tasks,
                           redis_lists, agentLog>>

ExpiryArgs == {0, 3600}

\* the outcomes of redis.expire: it is called after a set that returned,
\* when expires is given
ExpireOutcomes(value, expires, out) ==
    IF redis_available /\ Serializable(value) /\ out = "none" /\ expires # 0
        THEN CallOutcomes ELSE {"none"}

\* one call of _store_in_redis(key, value, expires)
call_store_in_redis ==
    \E id \in Ids, value \in Values, expires \in ExpiryArgs :
        \E out \in StoreOutcomes(value) :
            \E expOut \in ExpireOutcomes(value, expires, out) :
                LET key == Prefix("analysis_results") \o id
                    s == _store_in_redis(redis_available, redis, key, value,
                                         expires, out, expOut)
                IN  /\ ctor = "ok"
                    /\ lastRedis.n < MaxBackendOps
                    /\ redis' = s.redis
                    /\ lastRedis' = BackendCall("_store_in_redis", key,
                                                [value |-> value,
                                                 expires |-> expires,
                                                 before |-> redis[key]],
                                                IF out # "none" THEN out ELSE expOut,
                                                s.ret, s.raised, lastRedis)
                    /\ UNCHANGED <<ctor, redis_available, memory_cache, last,
                                   latest, nops, usageVars, threadVars, agentVars,
                                   resets, app_model_usage, lastStats, configVars, uiVars,
                                   redis_tasks, redis_lists, agentLog>>

TasksNext ==
    \/ call_store_task_status
    \/ call_get_task_status
    \/ call_store_in_redis

SpecTasks == CacheInit /\ [][TasksNext]_vars

\* the errors of a failed backend connection
ConnectionFailures == {"ConnectionError", "TimeoutError"}

\* C24: with the primary backend unavailable, store_task_status does not
\* report failure, and a get_task_status that follows it for the same task
\* id returns the stored status
C24_TaskStatusFallback ==
    /\ (lastRedis.op = "store_task_status" /\ lastRedis.arg.t = "dict"
            /\ lastRedis.out \in ConnectionFailures)
           => lastRedis.ret = TRUE /\ lastRedis.raised = "none"
    /\ (lastRedis.op = "get_task_status" /\ lastRedis.prevOp = "store_task_status"
            /\ lastRedis.prevId = lastRedis.id /\ lastRedis.arg.t = "dict"
            /\ lastRedis.out \in ConnectionFailures
            /\ lastRedis.prevOut \in ConnectionFailures)
           => lastRedis.ret = lastRedis.arg /\ lastRedis.raised = "none"

\* C25: after _store_in_redis(key, value, expires) the primary backend holds
\* the new value with the requested expiry and the result is True, or the
\* entry of the key is as before and the result is False
C25_StoreAtomic ==
    lastRedis.op = "_store_in_redis"
        => /\ lastRedis.raised = "none"
           /\ \/ /\ lastRedis.ret = TRUE
                 /\ redis[lastRedis.id]
                        = [data |-> Dumps(lastRedis.arg.value),
                           ttl |-> lastRedis.arg.expires]
              \/ /\ lastRedis.ret = FALSE
                 /\ redis[lastRedis.id] = lastRedis.arg.before


-----------------------------------------------------------------------------
(* RedisManager: agent messages *)

call_store_agent_message ==
    \E agent_id \in Agents, message \in DictArgs :
        \E out \in DictOutcomes(message) :
            LET s == store_agent_message(redis_lists, agent_id, message, clock, out)
            IN  /\ ctor = "ok"
                /\ lastRedis.n < MaxMessageOps
                /\ redis_lists' = s.lists
                /\ agentLog' = IF s.ret
                                   THEN [agentLog EXCEPT ![agent_id] =
                                            Append(@, Stamped(message.payload, clock))]
                               ELSE agentLog
                /\ lastRedis' = BackendCall("store_agent_message", agent_id,
                                            message, out, s.ret, s.raised, lastRedis)
                /\ UNCHANGED <<cacheVars, usageVars, threadVars, agentVars, resets,
                               app_model_usage, lastStats, configVars, uiVars, redis_tasks>>

call_get_agent_messages ==
    \E agent_id \in Agents, out \in CallOutcomes :
        LET g == get_agent_messages(redis_lists, agent_id, out)
        IN  /\ ctor = "ok"
            /\ lastRedis.n < MaxMessageOps
            /\ lastRedis' = BackendCall("get_agent_messages", agent_id, NoDict,
                                        out, g.ret, g.raised, lastRedis)
            /\ UNCHANGED <<cacheVars, usageVars, threadVars, agentVars, resets,
                           app_model_usage, lastStats, configVars, uiVars, redis_tasks,
                           redis_lists, agentLog>>

call_clear_agent_messages ==
    \E agent_id \in Agents, out \in CallOutcomes :
        LET c == clear_agent_messages(redis_lists, agent_id, out)
        IN  /\ ctor = "ok"
            /\ lastRedis.n < MaxMessageOps
            /\ redis_lists' = c.lists
            /\ agentLog' = IF c.ret THEN [agentLog EXCEPT ![agent_id] = <<>>]
                           ELSE agentLog
            /\ lastRedis' = BackendCall("clear_agent_messages", agent_id, NoDict,
                                        out, c.ret, c.raised, lastRedis)
            /\ UNCHANGED <<cacheVars, usageVars, threadVars, agentVars, resets,
                           app_model_usage, lastStats, configVars, uiVars, redis_tasks>>

MessagesNext ==
    \/ call_store_agent_message
    \/ call_get_agent_messages
    \/ call_clear_agent_messages

SpecMessages == CacheInit /\ [][MessagesNext]_vars

\* what get_agent_messages answers for an agent while the backend answers
MessagesOf(rl, agent_id) == get_agent_messages(rl, agent_id, "none").ret

\* C30: while the backend answers, get_agent_messages(a) returns the messages
\* stored for a since the last clear_agent_messages(a), in the order they
\* were stored, and a store or clear for one agent leaves what
\* get_agent_messages returns for every other agent unchanged
C30_AgentMessagesFifo ==
    /\ [](\A a \in Agents : MessagesOf(redis_lists, a) = agentLog[a])
    /\ []((lastRedis.op = "get_agent_messages" /\ lastRedis.out = "none")
             => lastRedis.ret = agentLog[lastRedis.id])
    /\ [][\A a \in Agents :
              a # lastRedis'.id
                  => MessagesOf(redis_lists', a) = MessagesOf(redis_lists, a)]_vars

\* a get returned two different messages in the order they were stored
C30_Witness ==
    /\ lastRedis.op = "get_agent_messages"
    /\ lastRedis.out = "none"
    /\ lastRedis.ret = <<Stamped("p", 1), Stamped("q", 1)>>
    /\ agentLog[lastRedis.id] = lastRedis.ret


-----------------------------------------------------------------------------
(* RedisManager: every operation, on one key of each kind *)

call_close ==
    \E out \in CallOutcomes :
        /\ ctor = "ok"
        /\ lastRedis' = BackendCall("close", "", NoDict, out, [none |-> TRUE],
                                    close(out).raised, lastRedis)
        /\ UNCHANGED <<cacheVars, usageVars, threadVars, agentVars, resets,
                       app_model_usage, lastStats, configVars, uiVars, redis_tasks,
                       redis_lists, agentLog>>

\* the operations made so far
OpsMade == nops + lastRedis.n

NoRaiseValues == {[t |-> "dict", ts |-> 1], PyObject}

StoreOn(ns) ==
    \E v \in NoRaiseValues : \E out \in StoreOutcomes(v) : DoStore(ns, "x", v, out)

GetOn(ns) == \E out \in GetErrs : DoGet(ns, "x", out)

NoRaiseNext ==
    \/ OpsMade < MaxNoRaiseOps /\ StoreOn("analysis_results")
    \/ OpsMade < MaxNoRaiseOps /\ GetOn("analysis_results")
    \/ OpsMade < MaxNoRaiseOps /\ StoreOn("code_analysis")
    \/ OpsMade < MaxNoRaiseOps /\ GetOn("code_analysis")
    \/ OpsMade < MaxNoRaiseOps /\ StoreOn("web_tests")
    \/ OpsMade < MaxNoRaiseOps /\ GetOn("web_tests")
    \/ OpsMade < MaxNoRaiseOps /\ StoreOn("user_preferences")
    \/ OpsMade < MaxNoRaiseOps /\ GetOn("user_preferences")
    \/ OpsMade < MaxNoRaiseOps /\ call_store_task_status
    \/ OpsMade < MaxNoRaiseOps /\ call_get_task_status
    \/ OpsMade < MaxNoRaiseOps /\ call_store_agent_message
    \/ OpsMade < MaxNoRaiseOps /\ call_get_agent_messages
    \/ OpsMade < MaxNoRaiseOps /\ call_clear_agent_messages
    \/ OpsMade < MaxNoRaiseOps /\ call_close

SpecNoRaise == CacheInit /\ [][NoRaiseNext]_vars

\* the value an operation returns when its backend call fails
FailureValue(op) ==
    CASE op = "store_task_status" -> FALSE
      [] op = "get_task_status" -> NoDict
      [] op = "store_agent_message" -> FALSE
      [] op = "get_agent_messages" -> <<>>
      [] op = "clear_agent_messages" -> FALSE
      [] OTHER -> [none |-> TRUE]

\* C26: no operation of RedisManager raises when the backend connection
\* fails: the constructor switches to the in-memory map, a namespaced store
\* returns True with the value in the in-memory map, a namespaced get answers
\* from the in-memory map, and the message, task and close operations return
\* False, None or an empty list
C26_ConnectionFailureContained ==
    /\ (lastRedis.op = "__init__" /\ lastRedis.out \in ConnectionFailures)
           => lastRedis.raised = "none" /\ ctor = "ok" /\ ~redis_available
    /\ (lastRedis.op # "__init__" /\ lastRedis.out \in ConnectionFailures)
           => /\ lastRedis.raised = "none"
              /\ lastRedis.ret = FailureValue(lastRedis.op)
    /\ (last.op = "store" /\ last.failed)
           => /\ last.raised = "none" /\ last.okret
              /\ FallbackLookup(memory_cache, last.ns, last.id) = last.val
    /\ (last.op = "get" /\ last.failed)
           => /\ last.raised = "none"
              /\ last.ret = FallbackLookup(memory_cache, last.ns, last.id)

\* the connection timed out while reading a list that holds a message, and
\* the caller got the empty list
C26_Witness ==
    /\ lastRedis.op = "get_agent_messages"
    /\ lastRedis.out = "TimeoutError"
    /\ lastRedis.raised = "none"
    /\ lastRedis.ret = <<>>
    /\ redis_lists[lastRedis.id] # <<>>


-----------------------------------------------------------------------------
(* The Code Review tab under concurrent sessions *)

\* code_review_agent.analyze_code(code_input): the call lacks the language
\* argument
analyze_code_missing_language == [raised |-> "TypeError"]

\* Analyze Code is pressed: the handler runs up to the answer of the cache
\* lookup
session_lookup(s) ==
    \E code_input \in DashboardInputs, out \in GetErrs :
        LET cached_analysis ==
                GetNamespaced(redis_available, redis, memory_cache,
                              "code_analysis", CodeHash(code_input), out).ret
        IN  /\ ctor = "ok"
            /\ sessions[s].pc = "idle"
            /\ sessions[s].runs < MaxSessionRuns
            /\ sessions' =
                   [sessions EXCEPT ![s] =
                       [pc |-> IF code_input = <<>> \/ PyTruthy(cached_analysis)
                                   THEN "idle" ELSE "analyze",
                        code |-> code_input,
                        outcome |-> IF code_input = <<>> THEN "warning"
                                    ELSE IF PyTruthy(cached_analysis) THEN "cached"
                                    ELSE "none",
                        runs |-> @.runs + 1]]
            /\ UNCHANGED <<cacheVars, usageVars, threadVars, agentVars, resets,
                           app_model_usage, lastStats, configVars, backendVars, web>>

\* the handler from the call of the analyzer on: the call raises and the
\* script run ends before store_code_analysis
session_analyze(s) ==
    /\ sessions[s].pc = "analyze"
    /\ analyze_code_missing_language.raised # "none"
    /\ sessions' = [sessions EXCEPT ![s].pc = "idle",
                                    ![s].outcome = analyze_code_missing_language.raised]
    /\ UNCHANGED <<cacheVars, usageVars, threadVars, agentVars, resets,
                   app_model_usage, lastStats, configVars, backendVars, web>>

SessionsNext ==
    \/ \E s \in Sessions : session_lookup(s)
    \/ \E s \in Sessions : session_analyze(s)

SpecSessions == CacheInit /\ [][SessionsNext]_vars

\* every session has left the handler and two of them analysed the text
AnalysedByAll(code) ==
    /\ \A s \in Sessions : sessions[s].pc = "idle"
    /\ \A s \in Sessions :
           sessions[s].code = code /\ sessions[s].outcome \notin {"none", "warning"}

\* C27: once the concurrent analyses of one text have all finished, the
\* cache holds one entry for its fingerprint, a complete report, and a get
\* returns it
C27_LastWriterWins ==
    \A code \in DashboardInputs :
        AnalysedByAll(code)
            => /\ GetResult(redis_available, redis, memory_cache, "code_analysis",
                            CodeHash(code)) \in Reports
               /\ \/ Truthy(redis[RedisKey("code_analysis", CodeHash(code))].data)
                  \/ CodeHash(code) \in DOMAIN memory_cache["code_analysis"]


-----------------------------------------------------------------------------
(* WebAutomation: the shared instance behind /api/v1/analyze-web *)

\* what a page operation can do: on a closed browser it raises, on an open
\* one it answers or raises (navigation failure, script error)
PageOutcomes(browser) == IF browser = "closed" THEN {"raise"} ELSE {"ok", "raise"}

\* self.page.goto / self.page.evaluate issued at position web.pc; a raise
\* inside run_automated_tests leads to its except and finally, a raise inside
\* check_security_headers to its own
PageOp(w, out, then, name) ==
    LET inner == w.pc \in {"sec_goto", "sec_evaluate"}
    IN  [w EXCEPT
           !.pageOpOnClosed = @ \/ w.browser = "closed",
           !.pc = IF out = "ok" THEN then
                  ELSE IF inner THEN "sec_cleanup" ELSE "cleanup",
           !.status = IF out = "raise" /\ ~inner THEN "error" ELSE @,
           !.tests = IF out = "raise" /\ ~inner THEN <<>>
                     ELSE IF out = "ok" /\ name # "" THEN Append(@, name)
                     ELSE @]

\* analyze_web: run_automated_tests(url, test_scenarios) starts on the module's
\* instance
run_automated_tests ==
    \E test_scenarios \in BOOLEAN :
        /\ web.pc = "idle"
        /\ web.runs < MaxWebRuns
        /\ web' = [web EXCEPT !.pc = "goto", !.runs = @ + 1, !.closes = 0,
                              !.cleanups = 0, !.status = "success",
                              !.tests = <<>>, !.scenarios = test_scenarios]
        /\ UNCHANGED <<cacheVars, usageVars, threadVars, agentVars, resets,
                       app_model_usage, lastStats, configVars, backendVars,
                       sessions>>

page_goto ==
    \E out \in PageOutcomes(web.browser) :
        /\ web.pc \in {"goto", "sec_goto"}
        /\ web' = PageOp(web, out,
                         IF web.pc = "goto" THEN "accessibility" ELSE "sec_evaluate",
                         "")
        /\ UNCHANGED <<cacheVars, usageVars, threadVars, agentVars, resets,
                       app_model_usage, lastStats, configVars, backendVars,
                       sessions>>

page_evaluate ==
    \E out \in PageOutcomes(web.browser) :
        /\ web.pc \in {"accessibility", "performance", "sec_evaluate"}
        /\ web' = PageOp(web, out,
                         CASE web.pc = "accessibility" -> "performance"
                           [] web.pc = "performance" -> "sec_goto"
                           [] OTHER -> "sec_cleanup",
                         CASE web.pc = "accessibility" -> "accessibility_check"
                           [] web.pc = "performance" -> "performance_metrics"
                           [] OTHER -> "")
        /\ UNCHANGED <<cacheVars, usageVars, threadVars, agentVars, resets,
                       app_model_usage, lastStats, configVars, backendVars,
                       sessions>>

\* cleanup(), from the finally of check_security_headers or of
\* run_automated_tests; on a closed browser it closes nothing, whatever the
\* close calls answer
cleanup ==
    /\ web.pc \in {"sec_cleanup", "cleanup"}
    /\ web' = [web EXCEPT
                  !.browser = "closed",
                  !.closes = IF web.browser = "open" THEN @ + 1 ELSE @,
                  !.cleanups = @ + 1,
                  !.tests = IF web.pc = "sec_cleanup"
                                THEN Append(@, "security_headers") ELSE @,
                  !.pc = IF web.pc = "cleanup" THEN "idle"
                         ELSE IF web.scenarios THEN "scenarios" ELSE "cleanup"]
    /\ UNCHANGED <<cacheVars, usageVars, threadVars, agentVars, resets,
                   app_model_usage, lastStats, configVars, backendVars,
                   sessions>>

\* the custom scenarios: _run_test_scenario is not defined, the
\* AttributeError is recorded as the scenario's error
run_test_scenarios ==
    /\ web.pc = "scenarios"
    /\ web' = [web EXCEPT !.tests = Append(@, "scenario_error"), !.pc = "cleanup"]
    /\ UNCHANGED <<cacheVars, usageVars, threadVars, agentVars, resets,
                   app_model_usage, lastStats, configVars, backendVars,
                   sessions>>

WebNext ==
    \/ run_automated_tests
    \/ page_goto
    \/ page_evaluate
    \/ cleanup
    \/ run_test_scenarios

SpecWeb == CacheInit /\ [][WebNext]_vars

\* C29: no goto or evaluate is issued on the instance once cleanup has closed
\* its browser, in the same call or in a later one, and every finished run
\* has closed the browser exactly once
C29_NoPageOpAfterCleanup ==
    /\ ~web.pageOpOnClosed
    /\ (web.pc = "idle" /\ web.runs > 0) => web.closes = 1

====
